---- MODULE Spec2Model ----
(***************************************************************************)
(* A model of the shipment-lifecycle integration of the storefront:        *)
(*   - the carrier client of src/lib/store.ts (getToken, apiRequest and    *)
(*     the endpoint wrappers, mapShiprocketStatusToOrderStatus);           *)
(*   - the checkout webhook of src/app/api/shiprocket/webhook/route.ts;    *)
(*   - the tracking webhook of src/unnamed/part_008;                       *)
(*   - the create-shipment handler and the other admin-only handlers;      *)
(*   - POST /api/orders of src/app/api/orders/route.ts;                    *)
(*   - the optimistic wishlist and cart operations of src/lib/store.ts.    *)
(*                                                                         *)
(* Nullable values are options: None is null/undefined, Some(x) a value.   *)
(* Times are milliseconds since the process started.                       *)
(***************************************************************************)
EXTENDS Integers, Sequences, FiniteSets, TLC

VARIABLES
    cachedToken,    \* store.ts: let cachedToken: string | null
    tokenExpiry,    \* store.ts: let tokenExpiry: number
    now,            \* Date.now()
    ticks,          \* how often the clock has been advanced
    envEmail,       \* process.env.SHIPROCKET_EMAIL is set
    envPassword,    \* process.env.SHIPROCKET_PASSWORD is set
    lastCall,       \* what the last call of the carrier client did
    statusCode,     \* argument of mapShiprocketStatusToOrderStatus
    statusResult,   \* its result
    shiprocket_orders,  \* the rows of table public.shiprocket_orders
    envSecret,      \* process.env.SHIPROCKET_CHECKOUT_SECRET
    whClock,        \* checkout webhook requests handled so far (the DB clock)
    whResp,         \* the last checkout webhook request and its response
    orders,         \* the rows of table orders
    order_timeline, \* the rows of table order_timeline
    requests,       \* requests handled so far by the handlers on orders
    trkResp,        \* the last tracking webhook request and its response
    carrierOrders,  \* per order: how often the carrier has created an order
    banners,        \* the rows of table banners
    storage,        \* the objects of storage bucket 'banners'
    reviews,        \* the rows of table reviews
    adminResp,      \* the last admin request: what it did and its response
    products,       \* the rows of table products, by id
    order_items,    \* the rows of table order_items
    cart_items,     \* the rows of table cart_items
    orderResp,      \* the last POST /api/orders request and its response
    wishlist,       \* useStore: wishlist (product ids)
    wishlistItems,  \* useStore: wishlistItems
    cart,           \* useStore: cart
    storeCalls,     \* calls of store operations so far
    storeResp       \* the last store operation and what it returned

vars == <<cachedToken, tokenExpiry, now, ticks, envEmail, envPassword,
          lastCall, statusCode, statusResult,
          shiprocket_orders, envSecret, whClock, whResp,
          orders, order_timeline, requests, trkResp,
          carrierOrders, banners, storage, reviews, adminResp,
          products, order_items, cart_items, orderResp,
          wishlist, wishlistItems, cart, storeCalls, storeResp>>

tokenVars == <<cachedToken, tokenExpiry, now, ticks, envEmail, envPassword,
               lastCall>>
statusVars == <<statusCode, statusResult>>
checkoutVars == <<shiprocket_orders, envSecret, whClock, whResp>>
orderVars == <<orders, order_timeline, requests>>
adminVars == <<carrierOrders, banners, storage, reviews, adminResp>>
shopVars == <<products, order_items, cart_items, orderResp>>
storeVars == <<wishlist, wishlistItems, cart, storeCalls, storeResp>>

----------------------------------------------------------------------------
(* Options and JavaScript truthiness *)

None == <<>>
Some(x) == <<x>>
Val(o) == o[1]

\* A string or null/undefined is truthy unless it is null or "".
TruthyStr(o) == o # None /\ o # Some("")
\* A number or null/undefined is truthy unless it is null or 0.
TruthyNum(o) == o # None /\ o # Some(0)

----------------------------------------------------------------------------
(* Bounds *)

MaxTicks == 3
MaxStatusCode == 60
MaxWebhooks == 2
MaxRequests == 2
MaxOrderRequests == 1
MaxStoreCalls == 3

----------------------------------------------------------------------------
(* getToken and apiRequest, src/lib/store.ts *)

BufferMs == 5 * 60 * 1000
ExpiryMs == 24 * 60 * 60 * 1000

Tokens == {"tokA", "tokB"}

\* What the login endpoint answers: OK with a JSON body (whose token field may
\* be missing or empty), OK with a body that is not JSON, not OK, or no answer
\* at all (fetch rejects).
LoginOutcomes ==
    [kind : {"ok"}, token : {None, Some("")} \cup {Some(t) : t \in Tokens}]
        \cup {[kind |-> "badjson", token |-> None],
              [kind |-> "notok", token |-> None],
              [kind |-> "neterr", token |-> None]}

\* How long the login request takes.
Latencies == {0, 1}

\* The clock is advanced (by Tick, or by a request that takes time) at most
\* MaxTicks times.
Advance(t) == IF t # now THEN ticks + 1 ELSE ticks

\* Steps of the clock, chosen to land on both sides of the expiry buffer.
TickSteps == {1, BufferMs, ExpiryMs - BufferMs - 2}

NoCall == [fn |-> "none"]

GetTokenBufferless(ct, te, t, email, password, login, lat) ==
    IF TruthyStr(ct) /\ t < te
    THEN [cachedToken |-> ct, tokenExpiry |-> te, now |-> t,
          outcome |-> "return", token |-> ct, error |-> "", logins |-> 0]
    ELSE IF ~email \/ ~password
    THEN [cachedToken |-> ct, tokenExpiry |-> te, now |-> t,
          outcome |-> "throw", token |-> None, error |-> "ShiprocketError",
          logins |-> 0]
    ELSE IF login.kind = "neterr"
    THEN [cachedToken |-> ct, tokenExpiry |-> te, now |-> t + lat,
          outcome |-> "throw", token |-> None, error |-> "TypeError",
          logins |-> 1]
    ELSE IF login.kind = "notok"
    THEN [cachedToken |-> ct, tokenExpiry |-> te, now |-> t + lat,
          outcome |-> "throw", token |-> None, error |-> "ShiprocketError",
          logins |-> 1]
    ELSE IF login.kind = "badjson"
    THEN [cachedToken |-> ct, tokenExpiry |-> te, now |-> t + lat,
          outcome |-> "throw", token |-> None, error |-> "SyntaxError",
          logins |-> 1]
    ELSE [cachedToken |-> login.token, tokenExpiry |-> t + lat + ExpiryMs,
          now |-> t + lat,
          outcome |-> "return", token |-> login.token, error |-> "",
          logins |-> 1]

GetTokenForgetsOnFailure(ct, te, t, email, password, login, lat) ==
    IF TruthyStr(ct) /\ t < te - BufferMs
    THEN [cachedToken |-> ct, tokenExpiry |-> te, now |-> t,
          outcome |-> "return", token |-> ct, error |-> "", logins |-> 0]
    ELSE IF ~email \/ ~password
    THEN [cachedToken |-> None, tokenExpiry |-> 0, now |-> t,
          outcome |-> "throw", token |-> None, error |-> "ShiprocketError",
          logins |-> 0]
    ELSE IF login.kind = "neterr"
    THEN [cachedToken |-> ct, tokenExpiry |-> te, now |-> t + lat,
          outcome |-> "throw", token |-> None, error |-> "TypeError",
          logins |-> 1]
    ELSE IF login.kind = "notok"
    THEN [cachedToken |-> None, tokenExpiry |-> 0, now |-> t + lat,
          outcome |-> "throw", token |-> None, error |-> "ShiprocketError",
          logins |-> 1]
    ELSE IF login.kind = "badjson"
    THEN [cachedToken |-> ct, tokenExpiry |-> te, now |-> t + lat,
          outcome |-> "throw", token |-> None, error |-> "SyntaxError",
          logins |-> 1]
    ELSE [cachedToken |-> login.token, tokenExpiry |-> t + lat + ExpiryMs,
          now |-> t + lat,
          outcome |-> "return", token |-> login.token, error |-> "",
          logins |-> 1]

\* getToken(): the module state after the call, what the call did (outcome,
\* returned token, thrown error class, login requests sent) and the time at
\* which it ended.  ct, te: the module state before; t: Date.now() on entry.
GetTokenCall(ct, te, t, email, password, login, lat) ==
    IF TruthyStr(ct) /\ t < te - BufferMs
    THEN [cachedToken |-> ct, tokenExpiry |-> te, now |-> t,
          outcome |-> "return", token |-> ct, error |-> "", logins |-> 0]
    ELSE IF ~email \/ ~password
    THEN [cachedToken |-> ct, tokenExpiry |-> te, now |-> t,
          outcome |-> "throw", token |-> None, error |-> "ShiprocketError",
          logins |-> 0]
    ELSE IF login.kind = "neterr"
    THEN [cachedToken |-> ct, tokenExpiry |-> te, now |-> t + lat,
          outcome |-> "throw", token |-> None, error |-> "TypeError",
          logins |-> 1]
    ELSE IF login.kind = "notok"
    THEN [cachedToken |-> ct, tokenExpiry |-> te, now |-> t + lat,
          outcome |-> "throw", token |-> None, error |-> "ShiprocketError",
          logins |-> 1]
    ELSE IF login.kind = "badjson"
    THEN [cachedToken |-> ct, tokenExpiry |-> te, now |-> t + lat,
          outcome |-> "throw", token |-> None, error |-> "SyntaxError",
          logins |-> 1]
    ELSE [cachedToken |-> login.token, tokenExpiry |-> t + lat + ExpiryMs,
          now |-> t + lat,
          outcome |-> "return", token |-> login.token, error |-> "",
          logins |-> 1]

\* What a carrier endpoint answers: OK, not OK (an HTTP error status), or no
\* answer at all (fetch rejects).
EndpointOutcomes == {"ok", "notok", "neterr"}

Endpoints == {"/orders/create/adhoc", "/courier/assign/awb"}

ApiRequestReturnsErrors(ct, te, t, email, password, login, lat, endpoint, answer) ==
    LET tok == GetTokenCall(ct, te, t, email, password, login, lat)
        got == [ev |-> "getToken", outcome |-> tok.outcome, arg |-> tok.token]
        req == [ev |-> "fetch", outcome |-> answer, arg |-> tok.token]
    IN  IF tok.outcome = "throw"
        THEN [tok |-> tok, trace |-> <<got>>, outcome |-> "throw",
              error |-> tok.error]
        ELSE IF answer = "neterr"
        THEN [tok |-> tok, trace |-> <<got, req>>, outcome |-> "throw",
              error |-> "TypeError"]
        ELSE [tok |-> tok, trace |-> <<got, req>>, outcome |-> "return",
              error |-> ""]

\* apiRequest(endpoint, options): the getToken call it makes, what it did in
\* order (the getToken call with its outcome and token, then the endpoint
\* request with the bearer token of its Authorization header and the answer),
\* and whether it returned the response data or threw.
ApiRequestCall(ct, te, t, email, password, login, lat, endpoint, answer) ==
    LET tok == GetTokenCall(ct, te, t, email, password, login, lat)
        got == [ev |-> "getToken", outcome |-> tok.outcome, arg |-> tok.token]
        req == [ev |-> "fetch", outcome |-> answer, arg |-> tok.token]
    IN  IF tok.outcome = "throw"
        THEN [tok |-> tok, trace |-> <<got>>, outcome |-> "throw",
              error |-> tok.error]
        ELSE IF answer = "neterr"
        THEN [tok |-> tok, trace |-> <<got, req>>, outcome |-> "throw",
              error |-> "TypeError"]
        ELSE IF answer = "notok"
        THEN [tok |-> tok, trace |-> <<got, req>>, outcome |-> "throw",
              error |-> "ShiprocketError"]
        ELSE [tok |-> tok, trace |-> <<got, req>>, outcome |-> "return",
              error |-> ""]

\* Time passes.
Tick ==
    /\ ticks < MaxTicks
    /\ \E d \in TickSteps : now' = now + d
    /\ ticks' = ticks + 1
    /\ lastCall' = NoCall
    /\ UNCHANGED <<cachedToken, tokenExpiry, envEmail, envPassword>>

\* A call of getToken().
GetToken ==
    /\ \E login \in LoginOutcomes, lat \in Latencies :
         LET r == GetTokenCall(cachedToken, tokenExpiry, now, envEmail,
                               envPassword, login, lat) IN
         /\ cachedToken' = r.cachedToken
         /\ tokenExpiry' = r.tokenExpiry
         /\ now' = r.now
         /\ lastCall' = [fn |-> "getToken", preToken |-> cachedToken,
                         preExpiry |-> tokenExpiry, preNow |-> now,
                         login |-> login, outcome |-> r.outcome,
                         token |-> r.token, error |-> r.error,
                         logins |-> r.logins]
         /\ ticks' = Advance(r.now)
         /\ ticks' <= MaxTicks
    /\ UNCHANGED <<envEmail, envPassword>>

\* A call of apiRequest(endpoint, options).
ApiRequest ==
    /\ \E login \in LoginOutcomes, lat \in Latencies, endpoint \in Endpoints,
          answer \in EndpointOutcomes :
         LET r == ApiRequestCall(cachedToken, tokenExpiry, now, envEmail,
                                 envPassword, login, lat, endpoint, answer) IN
         /\ cachedToken' = r.tok.cachedToken
         /\ tokenExpiry' = r.tok.tokenExpiry
         /\ now' = r.tok.now
         /\ lastCall' = [fn |-> "apiRequest", endpoint |-> endpoint,
                         answer |-> answer, tokOutcome |-> r.tok.outcome,
                         tokToken |-> r.tok.token, tokError |-> r.tok.error,
                         logins |-> r.tok.logins, trace |-> r.trace,
                         outcome |-> r.outcome, error |-> r.error]
         /\ ticks' = Advance(r.tok.now)
         /\ ticks' <= MaxTicks
    /\ UNCHANGED <<envEmail, envPassword>>

TokenInit ==
    /\ cachedToken = None
    /\ tokenExpiry = 0
    /\ now = 0
    /\ ticks = 0
    /\ envEmail \in BOOLEAN
    /\ envPassword \in BOOLEAN
    /\ lastCall = NoCall

----------------------------------------------------------------------------
(* mapShiprocketStatusToOrderStatus, src/lib/store.ts *)

StatusCodes == (0 - 2) .. MaxStatusCode

MapStatusNoReturned(code) ==
    IF code = 7 THEN "delivered"
    ELSE IF code \in {8, 16} THEN "cancelled"
    ELSE IF code \in {6, 17, 18, 42} THEN "shipped"
    ELSE "processing"

mapShiprocketStatusToOrderStatus(code) ==
    IF code = 7 THEN "delivered"
    ELSE IF code \in {8, 16} THEN "cancelled"
    ELSE IF code \in {6, 17, 18, 42} THEN "shipped"
    ELSE IF code \in {9, 10, 14} THEN "returned"
    ELSE "processing"

StatusInit ==
    /\ statusCode \in StatusCodes
    /\ statusResult = None

\* A call of mapShiprocketStatusToOrderStatus(statusCode).
MapStatus ==
    /\ statusResult = None
    /\ statusResult' = Some(mapShiprocketStatusToOrderStatus(statusCode))
    /\ UNCHANGED statusCode

\* The next call, with another argument.
NextStatusCode ==
    /\ statusResult # None
    /\ \E c \in StatusCodes : statusCode' = c
    /\ statusResult' = None

----------------------------------------------------------------------------
(* The checkout webhook, src/app/api/shiprocket/webhook/route.ts, and table *)
(* public.shiprocket_orders, src/unnamed/part_001                           *)

\* What a database statement does: it is carried out, the database reports an
\* error ({ error }), or the client call rejects.
DbOutcomes == {"ok", "error", "throw"}

\* a || b for values that are truthy whenever they are present
OrElse(a, b) == IF a # None THEN a ELSE b
\* a || b for numbers
OrElseNum(a, b) == IF TruthyNum(a) THEN a ELSE b

\* A webhook payload: every field the handlers read; None is an absent field.
NoPayload ==
    [event |-> None, order_id |-> None, payment_status |-> None,
     awb |-> None, shipment_id |-> None, transaction_id |-> None,
     items |-> None, cart_items |-> None, phone |-> None,
     customer_phone |-> None, email |-> None, customer_email |-> None,
     payment_method |-> None, total_amount |-> None, order_total |-> None,
     shipping_address |-> None, delivery_address |-> None,
     current_status |-> None, shipment_status |-> None]

Payloads ==
    {[NoPayload EXCEPT !.event = Some("order.created"),
         !.order_id = Some("SR1"), !.items = Some("items1"),
         !.total_amount = Some(500), !.payment_method = Some("cod"),
         !.phone = Some("p1"), !.email = Some("e1"),
         !.shipping_address = Some("addr1")],
     [NoPayload EXCEPT !.event = Some("checkout.completed"),
         !.order_id = Some("SR1"), !.cart_items = Some("items2"),
         !.total_amount = Some(0), !.order_total = Some(900),
         !.customer_phone = Some("p2"), !.delivery_address = Some("addr2")],
     [NoPayload EXCEPT !.order_id = Some("SR2"),
         !.payment_status = Some("paid"), !.items = Some("items1"),
         !.total_amount = Some(500), !.customer_email = Some("e2")],
     [NoPayload EXCEPT !.event = Some("order.created"),
         !.order_id = Some("SR2"), !.phone = Some("p1")],
     [NoPayload EXCEPT !.event = Some("order.created"),
         !.items = Some("items1"), !.total_amount = Some(500)],
     [NoPayload EXCEPT !.event = Some("shipment.status"),
         !.order_id = Some("SR1"), !.awb = Some("AWB1"),
         !.current_status = Some("SHIPPED")],
     [NoPayload EXCEPT !.order_id = Some("SR1"), !.awb = Some("AWB1"),
         !.shipment_status = Some("DELIVERED")],
     [NoPayload EXCEPT !.order_id = Some("SR2"), !.shipment_id = Some("S2"),
         !.awb = Some("AWB2")],
     [NoPayload EXCEPT !.event = Some("tracking.update"),
         !.order_id = Some("SR1"), !.current_status = Some("SHIPPED")],
     [NoPayload EXCEPT !.event = Some("payment.success"),
         !.order_id = Some("SR1")],
     [NoPayload EXCEPT !.order_id = Some("SR2"),
         !.transaction_id = Some("T1"), !.payment_method = Some("cod")],
     [NoPayload EXCEPT !.event = Some("refund.created"),
         !.order_id = Some("SR1")],
     NoPayload}

\* A request body: text that is not JSON, or the JSON text of a payload.
\* ParseJson is JSON.parse on it: None when it throws.
NotJson == [json |-> FALSE]
\* The JSON text null, and what JSON.parse makes of it.
JsonNull == [json |-> TRUE, null |-> TRUE]
JsNull == [null |-> TRUE]
Bodies ==
    {NotJson, JsonNull} \cup {[json |-> TRUE, payload |-> p] : p \in Payloads}
ParseJson(body) ==
    IF ~body.json THEN None
    ELSE IF body = JsonNull THEN Some(JsNull)
    ELSE Some(body.payload)

Secrets == {"k1", "k2"}

\* crypto.createHmac('sha256', secret).update(payload).digest('base64'): a
\* keyed digest, taken to be free of collisions (two digests are equal only
\* for the same key and the same text).
Hmac(secret, text) == [alg |-> "sha256/base64", key |-> secret, text |-> text]

\* generateSignature(payload): None when it throws (no secret configured)
generateSignature(secret, payload) ==
    IF ~TruthyStr(secret) THEN None ELSE Some(Hmac(Val(secret), payload))

\* ShiprocketCheckoutService.verifyWebhook(payload, signature)
verifyWebhook(secret, payload, signature) ==
    IF ~TruthyStr(secret) THEN FALSE
    ELSE LET expectedSignature == generateSignature(secret, payload) IN
         IF expectedSignature = None THEN FALSE
         ELSE signature = expectedSignature

\* determineEventType(payload)
determineEventType(payload) ==
    IF payload.order_id # None /\ payload.payment_status # None
    THEN "checkout.completed"
    ELSE IF payload.awb # None \/ payload.shipment_id # None
    THEN "shipment.status"
    ELSE IF payload.transaction_id # None THEN "payment.success"
    ELSE "unknown"

\* The columns of a row a statement sets; None is a key left out (undefined).
Columns == {"shiprocket_order_id", "items", "phone", "email", "payment_type",
            "total_amount", "status", "shipping_address", "raw_webhook_data",
            "updated_at"}
NotNullColumns == {"shiprocket_order_id", "items", "total_amount"}

\* The row a statement's values give an existing row: the columns the
\* statement names are overwritten, the others kept.
Merge(row, values) ==
    [c \in DOMAIN row |->
        IF c \in DOMAIN values /\ values[c] # None THEN values[c] ELSE row[c]]

\* A new row: absent columns take their defaults (part_001 lines 18-32).
NewRow(table, values, clock) ==
    [id |-> Some(Len(table) + 1),
     shiprocket_order_id |-> values.shiprocket_order_id,
     user_id |-> None,
     items |-> values.items,
     phone |-> values.phone,
     email |-> values.email,
     payment_type |-> values.payment_type,
     total_amount |-> values.total_amount,
     status |-> OrElse(values.status, Some("paid")),
     shipping_address |-> values.shipping_address,
     raw_webhook_data |-> values.raw_webhook_data,
     created_at |-> Some(clock),
     updated_at |-> OrElse(values.updated_at, Some(clock))]

Conflicts(table, key) ==
    {i \in 1..Len(table) : table[i].shiprocket_order_id = key}

InsertAlways(table, values, clock) ==
    IF \E c \in NotNullColumns : values[c] = None
    THEN [table |-> table, error |-> TRUE]
    ELSE [table |-> Append(table, NewRow(table, values, clock)),
          error |-> FALSE]

\* .upsert(values, { onConflict: 'shiprocket_order_id' }): INSERT ... ON
\* CONFLICT (shiprocket_order_id) DO UPDATE.  The NOT NULL columns are checked
\* on the row proposed for insertion.
Upsert(table, values, clock) ==
    IF \E c \in NotNullColumns : values[c] = None
    THEN [table |-> table, error |-> TRUE]
    ELSE IF Conflicts(table, values.shiprocket_order_id) # {}
    THEN [table |->
            [i \in 1..Len(table) |->
                IF i \in Conflicts(table, values.shiprocket_order_id)
                THEN Merge(table[i], values) ELSE table[i]],
          error |-> FALSE]
    ELSE [table |-> Append(table, NewRow(table, values, clock)),
          error |-> FALSE]

\* .update(values).eq('shiprocket_order_id', key)
UpdateWhere(table, values, key) ==
    [table |->
        [i \in 1..Len(table) |->
            IF key # None /\ table[i].shiprocket_order_id = key
            THEN Merge(table[i], values) ELSE table[i]],
     error |-> FALSE]

\* What a statement leaves behind under each database outcome, and whether
\* the handler sees an error or a rejection.
Statement(table, done, db) ==
    IF db = "ok" THEN [table |-> done.table, writes |-> 1,
                       failed |-> done.error]
    ELSE [table |-> table, writes |-> 1, failed |-> TRUE]

Skipped(table) == [table |-> table, writes |-> 0, failed |-> FALSE]

\* handleOrderCreated(supabase, payload)
handleOrderCreated(table, payload, db, clock) ==
    Statement(table,
        Upsert(table,
            [shiprocket_order_id |-> payload.order_id,
             items |-> OrElse(payload.items, payload.cart_items),
             phone |-> OrElse(payload.phone, payload.customer_phone),
             email |-> OrElse(payload.email, payload.customer_email),
             payment_type |-> OrElse(payload.payment_method, Some("prepaid")),
             total_amount |->
                OrElseNum(payload.total_amount, payload.order_total),
             status |-> Some("paid"),
             shipping_address |->
                OrElse(payload.shipping_address, payload.delivery_address),
             raw_webhook_data |-> Some(payload),
             updated_at |-> Some(clock)],
            clock),
        db)

\* handleShipmentUpdate(supabase, payload)
handleShipmentUpdate(table, payload, db, clock) ==
    IF payload.awb = None THEN Skipped(table)
    ELSE Statement(table,
            UpdateWhere(table,
                [status |->
                    OrElse(payload.current_status, payload.shipment_status),
                 raw_webhook_data |-> Some(payload),
                 updated_at |-> Some(clock)],
                payload.order_id),
            db)

PaymentErrorIgnored(table, payload, db, clock) ==
    [table |-> table, writes |-> 1, failed |-> FALSE]

\* handlePaymentSuccess(supabase, payload)
handlePaymentSuccess(table, payload, db, clock) ==
    Statement(table,
        UpdateWhere(table,
            [status |-> Some("paid"),
             payment_type |-> OrElse(payload.payment_method, Some("prepaid")),
             raw_webhook_data |-> Some(payload),
             updated_at |-> Some(clock)],
            payload.order_id),
        db)

\* payload.event || determineEventType(payload)
EventType(payload) ==
    IF payload.event # None THEN Val(payload.event)
    ELSE determineEventType(payload)

\* The switch of POST: the handler an event type selects.
HandlerOf(eventType) ==
    IF eventType \in {"checkout.completed", "order.created"}
    THEN "handleOrderCreated"
    ELSE IF eventType \in {"shipment.status", "tracking.update"}
    THEN "handleShipmentUpdate"
    ELSE IF eventType = "payment.success" THEN "handlePaymentSuccess"
    ELSE "none"

Dispatch(table, payload, db, clock) ==
    LET h == HandlerOf(EventType(payload)) IN
    IF h = "handleOrderCreated"
    THEN handleOrderCreated(table, payload, db, clock)
    ELSE IF h = "handleShipmentUpdate"
    THEN handleShipmentUpdate(table, payload, db, clock)
    ELSE IF h = "handlePaymentSuccess"
    THEN handlePaymentSuccess(table, payload, db, clock)
    ELSE Skipped(table)

\* POST(request) of the checkout webhook: the table afterwards, the status and
\* body of the response, the handler that ran and the statements it issued.
\* signature is the x-shiprocket-signature header (None: absent or empty).
CheckoutPOST(table, secret, body, signature, db, clock) ==
    IF TruthyStr(secret) /\ signature # None
       /\ ~verifyWebhook(secret, body, signature)
    THEN [table |-> table, status |-> 401, body |-> "Invalid signature",
          handler |-> "none", writes |-> 0, failed |-> FALSE]
    ELSE IF ParseJson(body) = None
    THEN [table |-> table, status |-> 500,
          body |-> "Webhook processing failed", handler |-> "none",
          writes |-> 0, failed |-> FALSE]
    ELSE IF Val(ParseJson(body)) = JsNull
    THEN \* payload.event throws a TypeError
         [table |-> table, status |-> 500,
          body |-> "Webhook processing failed", handler |-> "none",
          writes |-> 0, failed |-> FALSE]
    ELSE LET payload == Val(ParseJson(body))
             r == Dispatch(table, payload, db, clock)
         IN  IF r.failed
             THEN [table |-> r.table, status |-> 500,
                   body |-> "Webhook processing failed",
                   handler |-> HandlerOf(EventType(payload)),
                   writes |-> r.writes, failed |-> TRUE]
             ELSE [table |-> r.table, status |-> 200, body |-> "success",
                   handler |-> HandlerOf(EventType(payload)),
                   writes |-> r.writes, failed |-> FALSE]

\* How a request is signed: not at all, with the configured secret over its
\* own body, with another key, or with the configured secret over another
\* body.
SignatureKinds == {"none", "valid", "otherkey", "otherbody"}
SignatureFor(kind, secret, body) ==
    IF kind = "none" THEN None
    ELSE IF kind = "valid"
    THEN Some(Hmac(IF secret # None THEN Val(secret) ELSE "k1", body))
    ELSE IF kind = "otherkey" THEN Some(Hmac("k2", body))
    ELSE Some(Hmac("k1", IF body = NotJson
                         THEN [json |-> TRUE, payload |-> NoPayload]
                         ELSE NotJson))

NoResponse == [status |-> 0]

\* A request to the checkout webhook.
CheckoutWebhook ==
    /\ whClock < MaxWebhooks
    /\ \E body \in Bodies, kind \in SignatureKinds, db \in DbOutcomes :
         LET signature == SignatureFor(kind, envSecret, body)
             r == CheckoutPOST(shiprocket_orders, envSecret, body, signature,
                               db, whClock + 1)
         IN  /\ shiprocket_orders' = r.table
             /\ whResp' = [status |-> r.status, body |-> r.body,
                           handler |-> r.handler, writes |-> r.writes,
                           failed |-> r.failed, dbOk |-> db = "ok",
                           request |-> body, signature |-> signature,
                           repeat |-> (whResp.status = 200
                                       /\ whResp.request = body)]
    /\ whClock' = whClock + 1
    /\ UNCHANGED envSecret

CheckoutInit ==
    /\ shiprocket_orders = <<>>
    /\ envSecret \in {None, Some("k1")}
    /\ whClock = 0
    /\ whResp = NoResponse

IdleCheckout ==
    /\ shiprocket_orders = <<>>
    /\ envSecret = None
    /\ whClock = 0
    /\ whResp = NoResponse

----------------------------------------------------------------------------
(* Table orders (src/unnamed/part_000) and the tracking webhook,            *)
(* src/unnamed/part_008                                                     *)

\* An explicit null in the values of a statement (None is a key left out).
SetNull == <<"null", "null">>

\* The row a statement's values give an existing row of orders.
MergeOrder(row, values) ==
    [c \in DOMAIN row |->
        IF c \in DOMAIN values /\ values[c] # None
        THEN (IF values[c] = SetNull THEN None ELSE values[c])
        ELSE row[c]]

\* .update(values).eq('id', id)
UpdateById(table, values, id) ==
    [i \in 1..Len(table) |->
        IF table[i].id = id THEN MergeOrder(table[i], values) ELSE table[i]]

\* An order as POST /api/orders inserts it, not yet handed to the carrier.
PendingOrder(id) ==
    [id |-> id, status |-> Some("pending"),
     shiprocket_order_id |-> None, shiprocket_shipment_id |-> None,
     shiprocket_awb_code |-> None, shiprocket_status |-> None,
     shiprocket_tracking_data |-> None, shiprocket_error |-> None,
     shiprocket_label_url |-> None,
     shipped_at |-> None, delivered_at |-> None]

\* SHIPMENT_STATUS_MAP[code]: None where the table has no entry
ShipmentStatusLabel(code) ==
    CASE code = 1 -> Some("AWB_ASSIGNED")
      [] code = 2 -> Some("LABEL_GENERATED")
      [] code = 3 -> Some("PICKUP_SCHEDULED")
      [] code = 4 -> Some("PICKUP_QUEUED")
      [] code = 5 -> Some("MANIFEST_GENERATED")
      [] code = 6 -> Some("SHIPPED")
      [] code = 7 -> Some("DELIVERED")
      [] code = 8 -> Some("CANCELED")
      [] code = 9 -> Some("RTO_INITIATED")
      [] code = 10 -> Some("RTO_DELIVERED")
      [] code = 12 -> Some("LOST")
      [] code = 13 -> Some("PICKUP_ERROR")
      [] code = 14 -> Some("RTO_ACKNOWLEDGED")
      [] code = 15 -> Some("PICKUP_RESCHEDULED")
      [] code = 16 -> Some("CANCELLATION_REQUESTED")
      [] code = 17 -> Some("OUT_FOR_DELIVERY")
      [] code = 18 -> Some("IN_TRANSIT")
      [] code = 19 -> Some("OUT_FOR_PICKUP")
      [] code = 20 -> Some("PICKUP_EXCEPTION")
      [] code = 21 -> Some("UNDELIVERED")
      [] code = 22 -> Some("DELAYED")
      [] code = 38 -> Some("REACHED_DESTINATION_HUB")
      [] code = 42 -> Some("PICKED_UP")
      [] OTHER -> None

\* const significantStatuses
significantStatuses == {6, 7, 8, 9, 10, 17, 18, 21, 42}

\* The database outcome of each statement of a request: statement number
\* stmt (in source order, 0: none) has outcome kind, the others are carried
\* out.
DbFailures(n) ==
    {[stmt |-> 0, kind |-> "ok"]}
        \cup [stmt : 1..n, kind : DbOutcomes \ {"ok"}]
DbOf(fail, i) == IF fail.stmt = i THEN fail.kind ELSE "ok"

\* A tracking payload; None is an absent field.
TrackingCodes == {1, 6, 7, 9, 21, 99}
TrackingPayloads ==
    [awb : {None, Some("AWB1"), Some("AWB2")},
     sr_order_id : {None, Some(101), Some(102)},
     shipment_status_id : {None} \cup {Some(c) : c \in TrackingCodes},
     shipment_status : {Some("CARRIER TEXT")}]

\* A request body: text that is not JSON, the JSON text null, or the JSON
\* text of a payload.
TrackingBodies ==
    {[json |-> "invalid"], [json |-> "null"]}
        \cup {[json |-> "object", payload |-> p] : p \in TrackingPayloads}

\* .or(`shiprocket_order_id.eq.${sr_order_id},shiprocket_awb_code.eq.${awb}`)
FindMatches(table, payload) ==
    {i \in 1..Len(table) :
        \/ table[i].shiprocket_order_id = payload.sr_order_id
        \/ (payload.awb # None /\ table[i].shiprocket_awb_code = payload.awb)}

\* mapShiprocketStatusToOrderStatus(payload.shipment_status_id); an absent
\* code takes the default branch of the switch.
NewStatusOf(payload) ==
    IF payload.shipment_status_id = None THEN "processing"
    ELSE mapShiprocketStatusToOrderStatus(Val(payload.shipment_status_id))

\* SHIPMENT_STATUS_MAP[payload.shipment_status_id] || payload.shipment_status
StatusLabelOf(payload) ==
    IF payload.shipment_status_id = None THEN payload.shipment_status
    ELSE OrElse(ShipmentStatusLabel(Val(payload.shipment_status_id)),
                payload.shipment_status)

\* updateData of processWebhook
UpdateDataOf(order, payload, clock) ==
    LET newStatus == NewStatusOf(payload) IN
    [shiprocket_status |-> StatusLabelOf(payload),
     shiprocket_tracking_data |-> Some(payload.shipment_status_id),
     status |-> IF Some(newStatus) # order.status THEN Some(newStatus)
                ELSE None,
     shipped_at |-> IF Some(newStatus) # order.status /\ newStatus = "shipped"
                    THEN Some(clock) ELSE None,
     delivered_at |->
        IF Some(newStatus) # order.status /\ newStatus = "delivered"
        THEN Some(clock) ELSE None]

\* processWebhook(request): the tables afterwards, whether it threw, and the
\* statements it issued.  fail: the database outcome of its statements
\* (1: the select, 2: the update, 3: the insert into order_timeline).
processWebhook(table, timeline, body, fail, clock) ==
    LET same == [orders |-> table, timeline |-> timeline] IN
    IF body.json = "invalid"
    THEN same @@ [threw |-> FALSE, stmts |-> 0, found |-> None]
    ELSE IF body.json = "null"
    THEN same @@ [threw |-> TRUE, stmts |-> 0, found |-> None]
    ELSE
    LET payload == body.payload
        matches == FindMatches(table, payload)
    IN
    IF DbOf(fail, 1) = "throw"
    THEN same @@ [threw |-> TRUE, stmts |-> 1, found |-> None]
    ELSE IF \/ DbOf(fail, 1) = "error"
            \/ payload.sr_order_id = None
            \/ Cardinality(matches) # 1
    THEN same @@ [threw |-> FALSE, stmts |-> 1, found |-> None]
    ELSE
    LET order == table[CHOOSE i \in matches : TRUE]
        updated == UpdateById(table, UpdateDataOf(order, payload, clock),
                              order.id)
        significant ==
            /\ payload.shipment_status_id # None
            /\ Val(payload.shipment_status_id) \in significantStatuses
        entry == [order_id |-> order.id, status |-> NewStatusOf(payload)]
    IN
    IF DbOf(fail, 2) = "throw"
    THEN same @@ [threw |-> TRUE, stmts |-> 2, found |-> Some(order.id)]
    ELSE IF DbOf(fail, 2) = "error"
    THEN same @@ [threw |-> FALSE, stmts |-> 2, found |-> Some(order.id)]
    ELSE IF ~significant
    THEN [orders |-> updated, timeline |-> timeline, threw |-> FALSE,
          stmts |-> 2, found |-> Some(order.id)]
    ELSE IF DbOf(fail, 3) = "throw"
    THEN [orders |-> updated, timeline |-> timeline, threw |-> TRUE,
          stmts |-> 3, found |-> Some(order.id)]
    ELSE IF DbOf(fail, 3) = "error"
    THEN [orders |-> updated, timeline |-> timeline, threw |-> FALSE,
          stmts |-> 3, found |-> Some(order.id)]
    ELSE [orders |-> updated, timeline |-> Append(timeline, entry),
          threw |-> FALSE, stmts |-> 3, found |-> Some(order.id)]

TrackingPOSTAnswers500(threw) ==
    IF threw THEN [status |-> 500, body |-> "error logged"]
    ELSE [status |-> 200, body |-> "received"]

\* POST(request) of the tracking webhook: its answer, given whether
\* processWebhook threw.
TrackingPOST(threw) ==
    IF threw THEN [status |-> 200, body |-> "error logged"]
    ELSE [status |-> 200, body |-> "received"]

\* A request to the tracking webhook.
TrackingWebhook ==
    /\ requests < MaxRequests
    /\ \E body \in TrackingBodies, fail \in DbFailures(3) :
         LET r == processWebhook(orders, order_timeline, body, fail,
                                 requests + 1)
             a == TrackingPOST(r.threw)
         IN  /\ orders' = r.orders
             /\ order_timeline' = r.timeline
             /\ trkResp' = [status |-> a.status, body |-> a.body,
                            json |-> body.json, threw |-> r.threw,
                            stmts |-> r.stmts, found |-> r.found]
    /\ requests' = requests + 1

\* Orders that create-shipment has handed to the carrier: with an AWB
\* assigned (status 'processing') or without (AWB assignment failed).
ShippedOrder(id, srId, awb) ==
    [PendingOrder(id) EXCEPT
        !.status = IF awb = None THEN Some("pending") ELSE Some("processing"),
        !.shiprocket_order_id = Some(srId),
        !.shiprocket_shipment_id = Some(srId + 1000),
        !.shiprocket_awb_code = awb,
        !.shiprocket_status = Some("NEW")]

TrackingInit ==
    /\ orders \in
         {<<ShippedOrder("o1", 101, Some("AWB1")), o2>> :
            o2 \in {PendingOrder("o2"),
                    ShippedOrder("o2", 102, None),
                    ShippedOrder("o2", 102, Some("AWB2"))}}
    /\ order_timeline = <<>>
    /\ requests = 0
    /\ trkResp = NoResponse

IdleOrders ==
    /\ orders = <<>>
    /\ order_timeline = <<>>
    /\ requests = 0
IdleTracking == trkResp = NoResponse

----------------------------------------------------------------------------
(* POST /api/shiprocket/create-shipment,                                    *)
(* src/app/api/shiprocket/create-shipment/route.ts                          *)

\* await requireAdmin(): it resolves, rejects with 'Forbidden: Admin access
\* required', or rejects with another error (nobody is signed in).
AuthOutcomes == {"admin", "forbidden", "error"}

AdminCatchAlways500(auth) == 500

\* The catch of an admin handler: 403 for the Forbidden error, else 500.
AdminCatch(auth) == IF auth = "forbidden" THEN 403 ELSE 500

\* One thing a handler did: a call or a statement, and whether it succeeded.
Ev(op, ok) == [op |-> op, ok |-> ok]

\* A request body: text that is not JSON, or an object with its order_id.
ShipBodies ==
    {[json |-> "invalid", order_id |-> None]}
        \cup [json : {"object"}, order_id : {None, Some("o1"), Some("o9")}]

\* What the login endpoint answers during one request.
ShipLogins ==
    {[kind |-> "ok", token |-> Some("tokA")],
     [kind |-> "notok", token |-> None]}

\* createOrder / assignAWB / schedulePickup / generateLabel: apiRequest on
\* the endpoint, from the token cache tk.
CarrierCall(tk, login, endpoint, answer) ==
    ApiRequestCall(tk.cachedToken, tk.tokenExpiry, now, envEmail, envPassword,
                   login, 0, endpoint, answer)

AwbFailureIgnored(call) == FALSE

\* The catch around assignAWB is taken (and the handler returns 207).
AwbFailed(call) == call.outcome = "throw"

CreateOrderFailureIgnored(call) == FALSE

\* The catch around createOrder is taken (and the handler returns 500).
CreateOrderThrew(call) == call.outcome = "throw"

\* The handler answers: the tables, the token cache and the carrier's orders
\* as it leaves them, the status of the response, and what it did, in order.
\* x: the request (who sent it, its body, what the login endpoint answers).
ShipRespond(x, table, timeline, tk, cr, status, trace) ==
    /\ orders' = table
    /\ order_timeline' = timeline
    /\ cachedToken' = tk.cachedToken
    /\ tokenExpiry' = tk.tokenExpiry
    /\ carrierOrders' = cr
    /\ adminResp' = [handler |-> "create-shipment", auth |-> x.auth,
                     order_id |-> x.body.order_id,
                     status |-> status, trace |-> trace,
                     wasShipped |->
                        \E i \in 1..Len(orders) :
                            /\ Some(orders[i].id) = x.body.order_id
                            /\ TruthyNum(orders[i].shiprocket_order_id),
                     changed |-> (table # orders
                                  \/ timeline # order_timeline)]

\* Steps 3 and 4 and the timeline entry (lines 169-209): schedulePickup and
\* generateLabel may fail without stopping the handler; the label_url, when
\* the response has one, is stored; the timeline entry is inserted.
ShipPickupAndLabel(x, table, timeline, tk, cr, id, trace) ==
    \E pickup \in {"ok", "notok"}, label \in {"ok", "notok"},
       label_url \in {None, Some("label.pdf")} :
      LET c3 == CarrierCall(tk, x.login, "/courier/generate/pickup", pickup)
          t3 == Append(trace, Ev("carrier.schedulePickup",
                                 c3.outcome = "return"))
          c4 == CarrierCall(c3.tok, x.login, "/courier/generate/label",
                            label)
          t4 == Append(t3, Ev("carrier.generateLabel",
                              c4.outcome = "return"))
          labelled == c4.outcome = "return" /\ label_url # None
      IN  /\ (c4.outcome = "throw" => label_url = None)
          /\ \E dbLabel \in (IF labelled THEN DbOutcomes ELSE {"ok"}),
                dbTimeline \in DbOutcomes :
               LET t5 == IF labelled
                         THEN Append(t4, Ev("db.update orders",
                                            dbLabel = "ok"))
                         ELSE t4
                   o5 == IF labelled /\ dbLabel = "ok"
                         THEN UpdateById(table,
                                 [shiprocket_label_url |-> label_url], id)
                         ELSE table
                   t6 == Append(t5, Ev("db.insert order_timeline",
                                       dbTimeline = "ok"))
               IN  IF dbTimeline = "throw"
                   THEN ShipRespond(x, o5, timeline, c4.tok, cr, 500, t6)
                   ELSE IF dbTimeline = "error"
                   THEN ShipRespond(x, o5, timeline, c4.tok, cr, 200, t6)
                   ELSE ShipRespond(x, o5,
                           Append(timeline, [order_id |-> id,
                                             status |-> "processing"]),
                           c4.tok, cr, 200, t6)

\* Step 2 (lines 133-167): assignAWB; when it fails the error is stored and
\* the answer is 207; else the AWB, when the response has one, is stored and
\* the status becomes 'processing'.
ShipAssignAWB(x, table, timeline, tk, cr, id, trace) ==
    \E answer \in {"ok", "notok"}, awb_code \in {None, Some("AWB1")},
       db \in DbOutcomes :
      LET c2 == CarrierCall(tk, x.login, "/courier/assign/awb", answer)
          t2 == Append(trace, Ev("carrier.assignAWB", c2.outcome = "return"))
          t3 == Append(t2, Ev("db.update orders", db = "ok"))
      IN  /\ (c2.outcome = "throw" => awb_code = None)
          /\ IF AwbFailed(c2)
             THEN IF db = "throw"
                  THEN ShipRespond(x, table, timeline, c2.tok, cr, 500, t3)
                  ELSE IF db = "error"
                  THEN ShipRespond(x, table, timeline, c2.tok, cr, 207, t3)
                  ELSE ShipRespond(x,
                          UpdateById(table,
                             [shiprocket_error |->
                                 Some("AWB assignment failed")], id),
                          timeline, c2.tok, cr, 207, t3)
             ELSE IF db = "throw"
                  THEN ShipRespond(x, table, timeline, c2.tok, cr, 500, t3)
                  ELSE ShipPickupAndLabel(x,
                          IF db = "ok"
                          THEN UpdateById(table,
                                  [shiprocket_awb_code |-> awb_code,
                                   status |-> Some("processing")], id)
                          ELSE table,
                          timeline, c2.tok, cr, id, t3)

\* Step 1 (lines 105-131): createOrder; when it fails the error is stored and
\* the answer is 500; else the carrier's ids are stored.
ShipCreateOrder(x, table, timeline, tk, cr, id, trace) ==
    \E answer \in {"ok", "notok"}, db \in DbOutcomes :
      LET c1 == CarrierCall(tk, x.login, "/orders/create/adhoc", answer)
          t1 == Append(trace, Ev("carrier.createOrder",
                                 c1.outcome = "return"))
          t2 == Append(t1, Ev("db.update orders", db = "ok"))
          cr1 == [cr EXCEPT ![id] = @ + 1]
          order_id == 200 + cr1[id]
      IN  IF CreateOrderThrew(c1)
          THEN IF db = "ok"
               THEN ShipRespond(x,
                       UpdateById(table,
                          [shiprocket_error |-> Some(c1.error)], id),
                       timeline, c1.tok, cr, 500, t2)
               ELSE ShipRespond(x, table, timeline, c1.tok, cr, 500, t2)
          ELSE IF db = "throw"
               THEN ShipRespond(x, table, timeline, c1.tok, cr1, 500, t2)
               ELSE ShipAssignAWB(x,
                       IF db = "ok"
                       THEN UpdateById(table,
                               [shiprocket_order_id |-> Some(order_id),
                                shiprocket_shipment_id |->
                                    Some(order_id + 1000),
                                shiprocket_status |-> Some("NEW"),
                                shiprocket_error |-> SetNull], id)
                       ELSE table,
                       timeline, c1.tok, cr1, id, t2)

\* POST(request) of create-shipment, from requireAdmin to the check that the
\* order has no shipment yet (lines 18-56).
createShipmentPOST(x) ==
    LET tk == [cachedToken |-> cachedToken, tokenExpiry |-> tokenExpiry]
        t0 == <<Ev("requireAdmin", x.auth = "admin")>>
        found == {i \in 1..Len(orders) : Some(orders[i].id) = x.body.order_id}
    IN
    IF x.auth # "admin"
    THEN ShipRespond(x, orders, order_timeline, tk, carrierOrders,
                     AdminCatch(x.auth), t0)
    ELSE IF x.body.json = "invalid"
    THEN ShipRespond(x, orders, order_timeline, tk, carrierOrders, 500, t0)
    ELSE IF ~TruthyStr(x.body.order_id)
    THEN ShipRespond(x, orders, order_timeline, tk, carrierOrders, 400, t0)
    ELSE
    \E db \in DbOutcomes :
      LET t1 == Append(t0, Ev("db.select orders", db = "ok")) IN
      IF db = "throw"
      THEN ShipRespond(x, orders, order_timeline, tk, carrierOrders, 500, t1)
      ELSE IF db = "error" \/ found = {}
      THEN ShipRespond(x, orders, order_timeline, tk, carrierOrders, 404, t1)
      ELSE IF TruthyNum(orders[CHOOSE i \in found : TRUE].shiprocket_order_id)
      THEN ShipRespond(x, orders, order_timeline, tk, carrierOrders, 400, t1)
      ELSE ShipCreateOrder(x, orders, order_timeline, tk, carrierOrders,
                           Val(x.body.order_id), t1)

\* A request to create-shipment.
CreateShipment ==
    /\ requests < MaxRequests
    /\ \E auth \in AuthOutcomes, body \in ShipBodies, login \in ShipLogins :
         createShipmentPOST([auth |-> auth, body |-> body, login |-> login])
    /\ requests' = requests + 1
    /\ UNCHANGED <<now, ticks, envEmail, envPassword, lastCall, banners,
                   storage, reviews>>

ShipInit ==
    /\ orders = <<PendingOrder("o1")>>
    /\ order_timeline = <<[order_id |-> "o1", status |-> "pending"]>>
    /\ requests = 0
    /\ carrierOrders = [o \in {"o1"} |-> 0]
    /\ adminResp = NoResponse

IdleAdmin ==
    /\ carrierOrders = [o \in {"o1"} |-> 0]
    /\ banners = <<>>
    /\ storage = {}
    /\ reviews = <<>>
    /\ adminResp = NoResponse

----------------------------------------------------------------------------
(* The other admin-only handlers: PUT and DELETE /api/admin/banners/:id     *)
(* (src/app/api/admin/banners/[id]/route.ts) and GET and POST               *)
(* /api/admin/reviews (src/unnamed/part_003)                                *)

AdminOut(status, trace) == [status |-> status, trace |-> trace]

\* An image URL is kept as image_url.split('/banners/') gives it: the pieces
\* of the text between the occurrences of '/banners/'.
StoredImage == Some(<<"https://cdn.example/storage/v1/object/public",
                      "b1.png">>)
ExternalImage == Some(<<"https://img.example/hero.png">>)

BannerIds == {"b1", "b2", "b9"}
BannerBodies ==
    {[json |-> "invalid", title |-> None, is_active |-> None]}
        \cup [json : {"object"}, title : {None, Some("Sale")},
              is_active : {None, Some(FALSE)}]

RowsWithId(table, id) == {i \in 1..Len(table) : table[i].id = id}

\* PUT(request, { params }) of banners/[id].  Statement 1 is the update.
bannerPUT(table, auth, id, body, fail) ==
    LET t0 == <<Ev("requireAdmin", auth = "admin")>>
        t1 == Append(t0, Ev("db.update banners", DbOf(fail, 1) = "ok"))
        same == [banners |-> table]
    IN  IF auth # "admin" THEN same @@ AdminOut(AdminCatch(auth), t0)
        ELSE IF body.json = "invalid" THEN same @@ AdminOut(500, t0)
        ELSE IF DbOf(fail, 1) # "ok" \/ RowsWithId(table, id) = {}
        THEN same @@ AdminOut(500, t1)
        ELSE [banners |->
                UpdateById(table, [title |-> body.title,
                                   is_active |-> body.is_active], id)]
                @@ AdminOut(200, t1)

\* DELETE(request, { params }) of banners/[id].  Statements: 1 the select of
\* image_url, 2 the removal from storage, 3 the delete.
bannerDELETE(table, objects, auth, id, fail) ==
    LET t0 == <<Ev("requireAdmin", auth = "admin")>>
        t1 == Append(t0, Ev("db.select banners", DbOf(fail, 1) = "ok"))
        same == [banners |-> table, storage |-> objects]
        rows == RowsWithId(table, id)
        banner == IF DbOf(fail, 1) = "ok" /\ rows # {}
                  THEN Some(table[CHOOSE i \in rows : TRUE]) ELSE None
        urlParts == IF banner # None /\ Val(banner).image_url # None
                    THEN Val(Val(banner).image_url) ELSE <<>>
        removes == Len(urlParts) > 1
        t2 == IF removes
              THEN Append(t1, Ev("storage.remove", DbOf(fail, 2) = "ok"))
              ELSE t1
        o2 == IF removes /\ DbOf(fail, 2) = "ok"
              THEN objects \ {urlParts[2]} ELSE objects
        t3 == Append(t2, Ev("db.delete banners", DbOf(fail, 3) = "ok"))
    IN  IF auth # "admin" THEN same @@ AdminOut(AdminCatch(auth), t0)
        ELSE IF DbOf(fail, 1) = "throw" THEN same @@ AdminOut(500, t1)
        ELSE IF removes /\ DbOf(fail, 2) = "throw"
        THEN same @@ AdminOut(500, t2)
        ELSE IF DbOf(fail, 3) # "ok"
        THEN [banners |-> table, storage |-> o2] @@ AdminOut(500, t3)
        ELSE [banners |-> SelectSeq(table, LAMBDA b : b.id # id),
              storage |-> o2] @@ AdminOut(200, t3)

\* GET(request) of admin/reviews.  Statement 1 is the select.
reviewsGET(auth, fail) ==
    LET t0 == <<Ev("requireAdmin", auth = "admin")>>
        t1 == Append(t0, Ev("db.select reviews", DbOf(fail, 1) = "ok"))
    IN  IF auth # "admin" THEN AdminOut(AdminCatch(auth), t0)
        ELSE IF DbOf(fail, 1) # "ok" THEN AdminOut(500, t1)
        ELSE AdminOut(200, t1)

ReviewBodies ==
    {[json |-> "invalid", product_id |-> None, reviewer_name |-> None,
      rating |-> None]}
        \cup [json : {"object"}, product_id : {None, Some("p1")},
              reviewer_name : {Some("Ann")},
              rating : {None, Some(0), Some(5), Some(6)}]

\* POST(request) of admin/reviews.  Statement 1 is the insert.
reviewsPOST(table, auth, body, fail) ==
    LET t0 == <<Ev("requireAdmin", auth = "admin")>>
        t1 == Append(t0, Ev("db.insert reviews", DbOf(fail, 1) = "ok"))
        same == [reviews |-> table]
    IN  IF auth # "admin" THEN same @@ AdminOut(AdminCatch(auth), t0)
        ELSE IF body.json = "invalid" THEN same @@ AdminOut(500, t0)
        ELSE IF \/ ~TruthyStr(body.product_id)
                \/ ~TruthyStr(body.reviewer_name)
                \/ ~TruthyNum(body.rating)
        THEN same @@ AdminOut(400, t0)
        ELSE IF Val(body.rating) < 1 \/ Val(body.rating) > 5
        THEN same @@ AdminOut(400, t0)
        ELSE IF DbOf(fail, 1) # "ok" THEN same @@ AdminOut(500, t1)
        ELSE [reviews |->
                Append(table, [product_id |-> body.product_id,
                               reviewer_name |-> body.reviewer_name,
                               rating |-> body.rating,
                               is_verified_buyer |-> TRUE,
                               is_active |-> TRUE])]
                @@ AdminOut(201, t1)

AdminResponse(handler, auth, r, changed) ==
    [handler |-> handler, auth |-> auth, order_id |-> None,
     status |-> r.status, trace |-> r.trace, wasShipped |-> FALSE,
     changed |-> changed]

\* A request to PUT /api/admin/banners/:id.
BannerPUT ==
    /\ requests < MaxRequests
    /\ \E auth \in AuthOutcomes, id \in BannerIds, body \in BannerBodies,
          fail \in DbFailures(1) :
         LET r == bannerPUT(banners, auth, id, body, fail) IN
         /\ (auth # "admin" => fail.stmt = 0)
         /\ banners' = r.banners
         /\ adminResp' = AdminResponse("banners.PUT", auth, r,
                                       r.banners # banners)
    /\ requests' = requests + 1
    /\ UNCHANGED <<tokenVars, orders, order_timeline, carrierOrders, storage,
                   reviews>>

\* A request to DELETE /api/admin/banners/:id.
BannerDELETE ==
    /\ requests < MaxRequests
    /\ \E auth \in AuthOutcomes, id \in BannerIds, fail \in DbFailures(3) :
         LET r == bannerDELETE(banners, storage, auth, id, fail) IN
         /\ (auth # "admin" => fail.stmt = 0)
         /\ banners' = r.banners
         /\ storage' = r.storage
         /\ adminResp' = AdminResponse("banners.DELETE", auth, r,
                            r.banners # banners \/ r.storage # storage)
    /\ requests' = requests + 1
    /\ UNCHANGED <<tokenVars, orders, order_timeline, carrierOrders, reviews>>

\* A request to GET /api/admin/reviews.
ReviewsGET ==
    /\ requests < MaxRequests
    /\ \E auth \in AuthOutcomes, fail \in DbFailures(1) :
         /\ (auth # "admin" => fail.stmt = 0)
         /\ adminResp' = AdminResponse("reviews.GET", auth,
                                       reviewsGET(auth, fail), FALSE)
    /\ requests' = requests + 1
    /\ UNCHANGED <<tokenVars, orders, order_timeline, carrierOrders, banners,
                   storage, reviews>>

\* A request to POST /api/admin/reviews.
ReviewsPOST ==
    /\ requests < MaxRequests
    /\ \E auth \in AuthOutcomes, body \in ReviewBodies,
          fail \in DbFailures(1) :
         LET r == reviewsPOST(reviews, auth, body, fail) IN
         /\ (auth # "admin" => fail.stmt = 0)
         /\ reviews' = r.reviews
         /\ adminResp' = AdminResponse("reviews.POST", auth, r,
                                       r.reviews # reviews)
    /\ requests' = requests + 1
    /\ UNCHANGED <<tokenVars, orders, order_timeline, carrierOrders, banners,
                   storage>>

BannersInit ==
    /\ banners = <<[id |-> "b1", title |-> Some("Summer"),
                    is_active |-> Some(TRUE), image_url |-> StoredImage],
                   [id |-> "b2", title |-> Some("Winter"),
                    is_active |-> Some(TRUE), image_url |-> ExternalImage]>>
    /\ storage = {"b1.png"}
    /\ reviews = <<>>

----------------------------------------------------------------------------
(* POST /api/orders, src/app/api/orders/route.ts *)

\* await requireAuth(): it resolves with the user, rejects with
\* 'Unauthorized', or rejects with another error.
UserOutcomes == {"user", "unauthorized", "error"}

\* The catch of POST: 401 for the Unauthorized error, else 500.
OrdersCatch(auth) == IF auth = "unauthorized" THEN 401 ELSE 500

\* const shippingCost = subtotal >= 999 ? 0 : 99
FreeShippingFrom == 999
ShippingFee == 99

shippingCost(subtotal) ==
    IF subtotal >= FreeShippingFrom THEN 0 ELSE ShippingFee

\* An entry of body.items.
OrderLines == [product_id : {"p1", "p2", "p9"}, quantity : {1, 2}]

\* body.items: absent, something that is no array, or an array.
ItemsFields ==
    {[kind |-> "missing", list |-> <<>>], [kind |-> "notarray", list |-> <<>>],
     [kind |-> "array", list |-> <<>>]}
        \cup {[kind |-> "array", list |-> <<a>>] : a \in OrderLines}
        \cup {[kind |-> "array", list |-> <<a, b>>] : a, b \in OrderLines}

\* A request body: text that is not JSON, the JSON text null, or an object
\* with its items and shipping.
OrderBodies ==
    {[json |-> "invalid", items |-> [kind |-> "missing", list |-> <<>>],
      shipping |-> None],
     [json |-> "null", items |-> [kind |-> "missing", list |-> <<>>],
      shipping |-> None]}
        \cup [json : {"object"}, items : ItemsFields,
              shipping : {None, Some("address")}]

\* const unitPrice = product.discount_price || product.price
unitPrice(product) == Val(OrElseNum(product.discount_price, product.price))

StockNeverChecked(product, item) == FALSE

\* if (product.stock_remaining < item.quantity)
InsufficientStock(product, item) == product.stock_remaining < item.quantity

\* The validation loop (lines 53-90), from item i on: it ends with a
\* rejected lookup ("throw"), a product that is not found ("notfound"), too
\* little stock ("stock"), or the subtotal and the order items ("ok").
\* The lookup of item i is statement i.
RECURSIVE ValidateItems(_, _, _, _, _, _, _)
ValidateItems(items, i, table, fail, subtotal, orderItems, trace) ==
    IF i > Len(items)
    THEN [kind |-> "ok", subtotal |-> subtotal, orderItems |-> orderItems,
          trace |-> trace]
    ELSE
    LET item == items[i]
        db == DbOf(fail, i)
        t1 == Append(trace, Ev("db.select products", db = "ok"))
        stop(kind) == [kind |-> kind, subtotal |-> subtotal,
                       orderItems |-> orderItems, trace |-> t1]
    IN
    IF db = "throw" THEN stop("throw")
    ELSE IF db = "error" \/ item.product_id \notin DOMAIN table
    THEN stop("notfound")
    ELSE
    LET product == table[item.product_id]
        totalPrice == unitPrice(product) * item.quantity
    IN  IF InsufficientStock(product, item) THEN stop("stock")
        ELSE ValidateItems(items, i + 1, table, fail, subtotal + totalPrice,
                Append(orderItems,
                       [product_id |-> item.product_id,
                        quantity |-> item.quantity,
                        unit_price |-> unitPrice(product),
                        total_price |-> totalPrice]),
                t1)

\* supabase.rpc('decrement_stock', { p_product_id, p_quantity })
decrement_stock(table, p_product_id, p_quantity) ==
    IF p_product_id \in DOMAIN table
    THEN [table EXCEPT ![p_product_id].stock_remaining = @ - p_quantity]
    ELSE table

\* The loop that decreases the stock (lines 135-140), from item i on.  The
\* call for item i is statement 4 + i.
RECURSIVE DecreaseStock(_, _, _, _, _)
DecreaseStock(items, i, table, fail, trace) ==
    IF i > Len(items)
    THEN [products |-> table, trace |-> trace, threw |-> FALSE]
    ELSE
    LET db == DbOf(fail, 4 + i)
        t1 == Append(trace, Ev("rpc.decrement_stock", db = "ok"))
    IN  IF db = "throw"
        THEN [products |-> table, trace |-> t1, threw |-> TRUE]
        ELSE DecreaseStock(items, i + 1,
                IF db = "ok"
                THEN decrement_stock(table, items[i].product_id,
                                     items[i].quantity)
                ELSE table,
                fail, t1)

\* The tables and the response of POST.
OrdersOut(o, oi, tl, pr, ci, status, trace) ==
    [orders |-> o, order_items |-> oi, order_timeline |-> tl,
     products |-> pr, cart_items |-> ci, status |-> status, trace |-> trace]

\* POST(request) of /api/orders.  Statements: 1, 2 the product lookups,
\* 3 the insert of the order, 4 the insert of the order items, 5, 6 the stock
\* decrements, 7 the timeline entry, 8 the deletion of the cart, 9 the
\* select of the complete order.
ordersPOST(o, oi, tl, pr, ci, auth, body, fail) ==
    LET t0 == <<Ev("requireAuth", auth = "user")>>
        same(status, trace) == OrdersOut(o, oi, tl, pr, ci, status, trace)
        items == body.items.list
    IN
    IF auth # "user" THEN same(OrdersCatch(auth), t0)
    ELSE IF body.json # "object" THEN same(500, t0)
    ELSE IF body.items.kind # "array" \/ Len(items) = 0 THEN same(400, t0)
    ELSE IF body.shipping = None THEN same(400, t0)
    ELSE
    LET v == ValidateItems(items, 1, pr, fail, 0, <<>>, t0) IN
    IF v.kind = "throw" THEN same(500, v.trace)
    ELSE IF v.kind # "ok" THEN same(400, v.trace)
    ELSE
    LET id == Len(o) + 1
        order == [id |-> id, user_id |-> "u1", status |-> Some("pending"),
                  subtotal |-> v.subtotal,
                  shipping_cost |-> shippingCost(v.subtotal),
                  total |-> v.subtotal + shippingCost(v.subtotal)]
        t3 == Append(v.trace, Ev("db.insert orders", DbOf(fail, 3) = "ok"))
    IN
    IF DbOf(fail, 3) # "ok" THEN same(500, t3)
    ELSE
    LET o1 == Append(o, order)
        t4 == Append(t3, Ev("db.insert order_items", DbOf(fail, 4) = "ok"))
        oi1 == IF DbOf(fail, 4) = "ok"
               THEN oi \o [k \in 1..Len(v.orderItems) |->
                              v.orderItems[k] @@ [order_id |-> id]]
               ELSE oi
    IN
    IF DbOf(fail, 4) = "throw" THEN OrdersOut(o1, oi, tl, pr, ci, 500, t4)
    ELSE
    LET d == DecreaseStock(items, 1, pr, fail, t4) IN
    IF d.threw THEN OrdersOut(o1, oi1, tl, d.products, ci, 500, d.trace)
    ELSE
    LET t7 == Append(d.trace,
                     Ev("db.insert order_timeline", DbOf(fail, 7) = "ok"))
        tl1 == IF DbOf(fail, 7) = "ok"
               THEN Append(tl, [order_id |-> id, status |-> "pending"])
               ELSE tl
    IN
    IF DbOf(fail, 7) = "throw"
    THEN OrdersOut(o1, oi1, tl, d.products, ci, 500, t7)
    ELSE
    LET t8 == Append(t7, Ev("db.delete cart_items", DbOf(fail, 8) = "ok"))
        ci1 == IF DbOf(fail, 8) = "ok"
               THEN SelectSeq(ci, LAMBDA c : c.user_id # "u1")
               ELSE ci
    IN
    IF DbOf(fail, 8) = "throw"
    THEN OrdersOut(o1, oi1, tl1, d.products, ci, 500, t8)
    ELSE
    LET t9 == Append(t8, Ev("db.select orders", DbOf(fail, 9) = "ok")) IN
    IF DbOf(fail, 9) = "throw"
    THEN OrdersOut(o1, oi1, tl1, d.products, ci1, 500, t9)
    ELSE OrdersOut(o1, oi1, tl1, d.products, ci1, 201, t9)

\* What the request asks for, by the catalogue: an item names a product that
\* does not exist, or asks for more than the product's stock_remaining.
ProductMissing(body, table) ==
    \E k \in 1..Len(body.items.list) :
        body.items.list[k].product_id \notin DOMAIN table
StockExceeded(body, table) ==
    \E k \in 1..Len(body.items.list) :
        /\ body.items.list[k].product_id \in DOMAIN table
        /\ body.items.list[k].quantity
              > table[body.items.list[k].product_id].stock_remaining

\* The sum over the items of (discount_price if set, else price) * quantity.
RECURSIVE SumOfItems(_, _)
SumOfItems(list, table) ==
    IF list = <<>> THEN 0
    ELSE LET item == Head(list)
             product == table[item.product_id]
         IN  (IF product.discount_price # None
              THEN Val(product.discount_price) ELSE Val(product.price))
                 * item.quantity
             + SumOfItems(Tail(list), table)

\* A request to POST /api/orders.
PlaceOrder ==
    /\ requests < MaxOrderRequests
    /\ \E auth \in UserOutcomes, body \in OrderBodies,
          fail \in DbFailures(9) :
         LET r == ordersPOST(orders, order_items, order_timeline, products,
                             cart_items, auth, body, fail)
         IN  /\ (auth # "user" => fail.stmt = 0)
             /\ orders' = r.orders
             /\ order_items' = r.order_items
             /\ order_timeline' = r.order_timeline
             /\ products' = r.products
             /\ cart_items' = r.cart_items
             /\ orderResp' =
                  [status |-> r.status, auth |-> auth, json |-> body.json,
                   trace |-> r.trace,
                   noItems |-> (body.items.kind # "array"
                                \/ body.items.list = <<>>),
                   noShipping |-> body.shipping = None,
                   productMissing |-> ProductMissing(body, products),
                   stockExceeded |-> StockExceeded(body, products),
                   expected |-> IF ProductMissing(body, products) THEN 0
                                ELSE SumOfItems(body.items.list, products),
                   wrote |-> <<r.orders, r.order_items, r.order_timeline,
                               r.products, r.cart_items>>
                             # <<orders, order_items, order_timeline,
                                 products, cart_items>>]
    /\ requests' = requests + 1

\* The catalogue, and the cart of the user who places the order.
ShopInit ==
    /\ products =
         [p \in {"p1", "p2"} |->
            IF p = "p1"
            THEN [id |-> "p1", price |-> Some(999), discount_price |-> None,
                  stock_remaining |-> 1]
            ELSE [id |-> "p2", price |-> Some(600),
                  discount_price |-> Some(500), stock_remaining |-> 2]]
    /\ order_items = <<>>
    /\ cart_items \in {<<>>, <<[user_id |-> "u1", product_id |-> "p1"],
                              [user_id |-> "u2", product_id |-> "p2"]>>}
    /\ orderResp = NoResponse

IdleShop ==
    /\ products = <<>>
    /\ order_items = <<>>
    /\ cart_items = <<>>
    /\ orderResp = NoResponse

----------------------------------------------------------------------------
(* The optimistic wishlist and cart operations of useStore, src/lib/store.ts *)

\* What a fetch of the store does: the response is OK, it is not OK (401 or
\* another status), or the fetch rejects (network error).
FetchOutcomes == {"ok", "401", "500", "neterr"}
Failed(outcome) == outcome # "ok"

\* What GET /api/wishlist answers when it is OK: data.wishlist and
\* data.product_ids, each possibly absent.
WishlistAnswers ==
    {[wishlist |-> None, product_ids |-> None],
     [wishlist |-> Some(<<[product_id |-> "p1"]>>),
      product_ids |-> Some(<<"p1">>)],
     [wishlist |-> Some(<<[product_id |-> "p1"], [product_id |-> "p2"]>>),
      product_ids |-> Some(<<"p1", "p2">>)]}

\* What GET /api/cart answers when it is OK: data.cart, possibly absent.
CartAnswers ==
    {None, Some(<<[id |-> "c1", quantity |-> 1]>>),
     Some(<<[id |-> "c1", quantity |-> 1], [id |-> "c2", quantity |-> 2]>>)}

\* x || [] for a list
OrEmpty(x) == IF x = None THEN <<>> ELSE Val(x)

Includes(list, x) == \E i \in 1..Len(list) : list[i] = x

\* The lists of the store.
Lists(w, wi, c) == [wishlist |-> w, wishlistItems |-> wi, cart |-> c]

\* syncWishlist(): with an OK response the lists are replaced by the
\* answer; otherwise they stay.
syncWishlist(st, outcome, answer) ==
    IF outcome = "ok"
    THEN [st EXCEPT !.wishlistItems = OrEmpty(answer.wishlist),
                    !.wishlist = OrEmpty(answer.product_ids)]
    ELSE st

\* syncCart(): with an OK response the cart is replaced by the answer; with
\* 401 it is emptied; otherwise it stays.
syncCart(st, outcome, answer) ==
    IF outcome = "ok" THEN [st EXCEPT !.cart = OrEmpty(answer)]
    ELSE IF outcome = "401" THEN [st EXCEPT !.cart = <<>>]
    ELSE st

KeepOptimistic(current, optimistic) == optimistic

\* set({ ...: current }) in the failure branches: the value the list has
\* after a failed request, given the one read before the optimistic update
\* and the optimistic one.
Revert(current, optimistic) == current

\* The result of a store operation: the lists, what it returned, and
\* whether it sent its request.
StoreOut(st, returned, sent) ==
    [lists |-> st, returned |-> returned, sent |-> sent]

\* addToWishlist(productId); outcome: of the POST; sync, answer: of the
\* refetch.
addToWishlist(st, productId, outcome, sync, answer) ==
    LET current == st.wishlist
        optimistic == Append(current, productId)
    IN  IF Includes(current, productId) THEN StoreOut(st, TRUE, FALSE)
        ELSE IF Failed(outcome)
        THEN StoreOut([st EXCEPT !.wishlist = Revert(current, optimistic)],
                      FALSE, TRUE)
        ELSE StoreOut(syncWishlist([st EXCEPT !.wishlist = optimistic],
                                   sync, answer),
                      TRUE, TRUE)

\* removeFromWishlist(productId)
removeFromWishlist(st, productId, outcome) ==
    LET currentWishlist == st.wishlist
        currentItems == st.wishlistItems
        w == SelectSeq(currentWishlist, LAMBDA id : id # productId)
        wi == SelectSeq(currentItems,
                        LAMBDA item : item.product_id # productId)
    IN  IF Failed(outcome)
        THEN StoreOut([st EXCEPT
                          !.wishlist = Revert(currentWishlist, w),
                          !.wishlistItems = Revert(currentItems, wi)],
                      FALSE, TRUE)
        ELSE StoreOut([st EXCEPT !.wishlist = w, !.wishlistItems = wi],
                      TRUE, TRUE)

\* removeFromCart(cartItemId)
removeFromCart(st, cartItemId, outcome) ==
    LET currentCart == st.cart
        c == SelectSeq(currentCart, LAMBDA item : item.id # cartItemId)
    IN  IF Failed(outcome)
        THEN StoreOut([st EXCEPT !.cart = Revert(currentCart, c)],
                      FALSE, TRUE)
        ELSE StoreOut([st EXCEPT !.cart = c], TRUE, TRUE)

\* updateCartQuantity(cartItemId, quantity); the cart is refetched when the
\* quantity is <= 0.
updateCartQuantity(st, cartItemId, quantity, outcome, sync, answer) ==
    LET currentCart == st.cart
        c == [i \in 1..Len(currentCart) |->
                IF currentCart[i].id = cartItemId
                THEN [currentCart[i] EXCEPT !.quantity = quantity]
                ELSE currentCart[i]]
    IN  IF Failed(outcome)
        THEN StoreOut([st EXCEPT !.cart = Revert(currentCart, c)],
                      FALSE, TRUE)
        ELSE IF quantity <= 0
        THEN StoreOut(syncCart([st EXCEPT !.cart = c], sync, answer),
                      TRUE, TRUE)
        ELSE StoreOut([st EXCEPT !.cart = c], TRUE, TRUE)

\* clearCart()
clearCart(st, outcome) ==
    LET currentCart == st.cart IN
    IF Failed(outcome)
    THEN StoreOut([st EXCEPT !.cart = Revert(currentCart, <<>>)],
                  FALSE, TRUE)
    ELSE StoreOut([st EXCEPT !.cart = <<>>], TRUE, TRUE)

\* A store operation was called and has returned r; its request had the
\* given outcome.
StoreCall(op, r, outcome) ==
    /\ storeCalls < MaxStoreCalls
    /\ storeCalls' = storeCalls + 1
    /\ wishlist' = r.lists.wishlist
    /\ wishlistItems' = r.lists.wishlistItems
    /\ cart' = r.lists.cart
    /\ storeResp' = [op |-> op, returned |-> r.returned, sent |-> r.sent,
                     failed |-> r.sent /\ Failed(outcome),
                     before |-> Lists(wishlist, wishlistItems, cart)]

AddToWishlist ==
    \E productId \in {"p1", "p2"}, outcome, sync \in FetchOutcomes,
       answer \in WishlistAnswers :
        /\ (Failed(sync) => answer.wishlist = None)
        /\ StoreCall("addToWishlist",
               addToWishlist(Lists(wishlist, wishlistItems, cart),
                             productId, outcome, sync, answer),
               outcome)

RemoveFromWishlist ==
    \E productId \in {"p1", "p2"}, outcome \in FetchOutcomes :
        StoreCall("removeFromWishlist",
            removeFromWishlist(Lists(wishlist, wishlistItems, cart),
                               productId, outcome),
            outcome)

RemoveFromCart ==
    \E cartItemId \in {"c1", "c2"}, outcome \in FetchOutcomes :
        StoreCall("removeFromCart",
            removeFromCart(Lists(wishlist, wishlistItems, cart),
                           cartItemId, outcome),
            outcome)

UpdateCartQuantity ==
    \E cartItemId \in {"c1", "c2"}, quantity \in {0, 3},
       outcome, sync \in FetchOutcomes, answer \in CartAnswers :
        /\ (Failed(sync) => answer = None)
        /\ StoreCall("updateCartQuantity",
               updateCartQuantity(Lists(wishlist, wishlistItems, cart),
                                  cartItemId, quantity, outcome, sync,
                                  answer),
               outcome)

ClearCart ==
    \E outcome \in FetchOutcomes :
        StoreCall("clearCart",
            clearCart(Lists(wishlist, wishlistItems, cart), outcome),
            outcome)

\* The store after a sync: one product in the wishlist, two items in the
\* cart.
StoreInit ==
    /\ wishlist = <<"p1">>
    /\ wishlistItems = <<[product_id |-> "p1"]>>
    /\ cart = <<[id |-> "c1", quantity |-> 1], [id |-> "c2", quantity |-> 2]>>
    /\ storeCalls = 0
    /\ storeResp = NoResponse

IdleStore ==
    /\ wishlist = <<>> /\ wishlistItems = <<>> /\ cart = <<>>
    /\ storeCalls = 0 /\ storeResp = NoResponse

----------------------------------------------------------------------------
(* Specifications *)

IdleToken ==
    /\ cachedToken = None /\ tokenExpiry = 0 /\ now = 0 /\ ticks = 0
    /\ envEmail = TRUE /\ envPassword = TRUE
    /\ lastCall = NoCall

IdleStatus == statusCode = 0 /\ statusResult = None

\* The carrier client alone.
SpecTokenInit ==
    TokenInit /\ IdleStatus /\ IdleCheckout /\ IdleOrders /\ IdleTracking
        /\ IdleAdmin /\ IdleShop /\ IdleStore
SpecTokenNext ==
    \/ Tick /\ UNCHANGED <<statusVars, checkoutVars, orderVars, trkResp, adminVars, shopVars, storeVars>>
    \/ GetToken /\ UNCHANGED <<statusVars, checkoutVars, orderVars, trkResp, adminVars, shopVars, storeVars>>
    \/ ApiRequest
         /\ UNCHANGED <<statusVars, checkoutVars, orderVars, trkResp, adminVars, shopVars, storeVars>>
SpecToken == SpecTokenInit /\ [][SpecTokenNext]_vars

\* The status mapping alone.
SpecStatusInit ==
    StatusInit /\ IdleToken /\ IdleCheckout /\ IdleOrders /\ IdleTracking
        /\ IdleAdmin /\ IdleShop /\ IdleStore
SpecStatusNext ==
    \/ MapStatus /\ UNCHANGED <<tokenVars, checkoutVars, orderVars, trkResp, adminVars, shopVars, storeVars>>
    \/ NextStatusCode
         /\ UNCHANGED <<tokenVars, checkoutVars, orderVars, trkResp, adminVars, shopVars, storeVars>>
SpecStatus == SpecStatusInit /\ [][SpecStatusNext]_vars

\* The checkout webhook alone.
SpecCheckoutInit ==
    CheckoutInit /\ IdleToken /\ IdleStatus /\ IdleOrders /\ IdleTracking
        /\ IdleAdmin /\ IdleShop /\ IdleStore
SpecCheckoutNext ==
    \/ CheckoutWebhook
         /\ UNCHANGED <<tokenVars, statusVars, orderVars, trkResp, adminVars, shopVars, storeVars>>
SpecCheckout == SpecCheckoutInit /\ [][SpecCheckoutNext]_vars

\* The tracking webhook, on orders that have been handed to the carrier.
SpecTrackingInit ==
    TrackingInit /\ IdleToken /\ IdleStatus /\ IdleCheckout /\ IdleAdmin
        /\ IdleShop /\ IdleStore
SpecTrackingNext ==
    \/ TrackingWebhook /\ UNCHANGED <<tokenVars, statusVars, checkoutVars, adminVars, shopVars, storeVars>>
SpecTracking == SpecTrackingInit /\ [][SpecTrackingNext]_vars

\* The admin-only handlers, on an order that has just been placed.
SpecAdminInit ==
    /\ ShipInit
    /\ BannersInit
    /\ TokenInit /\ envPassword
    /\ IdleStatus /\ IdleCheckout /\ IdleTracking
    /\ IdleShop /\ IdleStore
SpecAdminNext ==
    \/ CreateShipment /\ UNCHANGED <<statusVars, checkoutVars, trkResp, shopVars, storeVars>>
    \/ BannerPUT /\ UNCHANGED <<statusVars, checkoutVars, trkResp, shopVars, storeVars>>
    \/ BannerDELETE /\ UNCHANGED <<statusVars, checkoutVars, trkResp, shopVars, storeVars>>
    \/ ReviewsGET /\ UNCHANGED <<statusVars, checkoutVars, trkResp, shopVars, storeVars>>
    \/ ReviewsPOST /\ UNCHANGED <<statusVars, checkoutVars, trkResp, shopVars, storeVars>>
SpecAdmin == SpecAdminInit /\ [][SpecAdminNext]_vars

\* POST /api/orders, on a catalogue of two products.
SpecOrdersInit ==
    /\ ShopInit
    /\ orders = <<>> /\ order_timeline = <<>> /\ requests = 0
    /\ IdleToken /\ IdleStatus /\ IdleCheckout /\ IdleTracking /\ IdleAdmin
    /\ IdleStore
SpecOrdersNext ==
    \/ PlaceOrder
         /\ UNCHANGED <<tokenVars, statusVars, checkoutVars, trkResp,
                        adminVars, storeVars>>
SpecOrders == SpecOrdersInit /\ [][SpecOrdersNext]_vars

\* The store operations, called one after another.
SpecStoreInit ==
    /\ StoreInit
    /\ IdleToken /\ IdleStatus /\ IdleCheckout /\ IdleOrders /\ IdleTracking
    /\ IdleAdmin /\ IdleShop
SpecStoreNext ==
    \/ AddToWishlist /\ UNCHANGED <<tokenVars, statusVars, checkoutVars, orderVars, trkResp, adminVars, shopVars>>
    \/ RemoveFromWishlist /\ UNCHANGED <<tokenVars, statusVars, checkoutVars, orderVars, trkResp, adminVars, shopVars>>
    \/ RemoveFromCart /\ UNCHANGED <<tokenVars, statusVars, checkoutVars, orderVars, trkResp, adminVars, shopVars>>
    \/ UpdateCartQuantity /\ UNCHANGED <<tokenVars, statusVars, checkoutVars, orderVars, trkResp, adminVars, shopVars>>
    \/ ClearCart /\ UNCHANGED <<tokenVars, statusVars, checkoutVars, orderVars, trkResp, adminVars, shopVars>>
SpecStore == SpecStoreInit /\ [][SpecStoreNext]_vars

----------------------------------------------------------------------------
(* Claims about getToken and apiRequest, checked under SpecToken *)

AfterGetToken == lastCall.fn = "getToken"
AfterApiRequest == lastCall.fn = "apiRequest"

\* The last getToken call found a token cached and the time more than five
\* minutes before tokenExpiry.
CacheWasFresh ==
    /\ TruthyStr(lastCall.preToken)
    /\ lastCall.preNow < lastCall.preExpiry - 5 * 60 * 1000

ReturnedCachedWithoutLogin ==
    /\ lastCall.outcome = "return"
    /\ lastCall.logins = 0
    /\ lastCall.token = lastCall.preToken

\* The login of the last getToken call succeeded: the new token is stored,
\* expires 24 hours from now, and is what the call returned.
StoredNewToken ==
    /\ cachedToken = lastCall.login.token
    /\ tokenExpiry = now + 24 * 60 * 60 * 1000
    /\ lastCall.outcome = "return"
    /\ lastCall.token = lastCall.login.token

\* C1 as stated: getToken returns the cached token without a login request iff
\* a token is cached and the time is more than 5 minutes before tokenExpiry;
\* in every other case it sends exactly one login request and, when that
\* succeeds, stores the new token with tokenExpiry = now + 24 hours and
\* returns it.
C1_AsStated ==
    AfterGetToken =>
        /\ ReturnedCachedWithoutLogin <=> CacheWasFresh
        /\ ~CacheWasFresh =>
              /\ lastCall.logins = 1
              /\ lastCall.login.kind = "ok" => StoredNewToken

\* C1 amended: as stated, except that in the other cases a login request is
\* sent (exactly one) only when SHIPROCKET_EMAIL and SHIPROCKET_PASSWORD are
\* both configured; when one is missing no login request is sent and the call
\* throws.
C1_GetTokenCache ==
    AfterGetToken =>
        /\ ReturnedCachedWithoutLogin <=> CacheWasFresh
        /\ (~CacheWasFresh /\ envEmail /\ envPassword) =>
              /\ lastCall.logins = 1
              /\ lastCall.login.kind = "ok" => StoredNewToken
        /\ (~CacheWasFresh /\ ~(envEmail /\ envPassword)) =>
              /\ lastCall.logins = 0
              /\ lastCall.outcome = "throw"

\* C1's case: a cached token inside the five-minute buffer was replaced by a
\* login that succeeded.
C1_Witness ==
    /\ AfterGetToken
    /\ TruthyStr(lastCall.preToken)
    /\ lastCall.preNow < lastCall.preExpiry
    /\ ~CacheWasFresh
    /\ lastCall.login.kind = "ok"
    /\ TruthyStr(cachedToken)
    /\ cachedToken # lastCall.preToken

FetchesOf(trace) == {i \in 1..Len(trace) : trace[i].ev = "fetch"}

\* C9: every endpoint request of apiRequest comes after a getToken that
\* succeeded in the same call and carries the token it returned; if getToken
\* throws no endpoint request is sent and the error reaches the caller; a
\* non-OK endpoint response is a thrown ShiprocketError, never a result.
C9_ApiRequestOrder ==
    AfterApiRequest =>
        /\ Cardinality(FetchesOf(lastCall.trace)) <= 1
        /\ \A i \in FetchesOf(lastCall.trace) :
              \E j \in 1..(i - 1) :
                 /\ lastCall.trace[j].ev = "getToken"
                 /\ lastCall.trace[j].outcome = "return"
                 /\ lastCall.trace[i].arg = lastCall.trace[j].arg
                 /\ lastCall.trace[i].arg = lastCall.tokToken
        /\ lastCall.tokOutcome = "throw" =>
              /\ FetchesOf(lastCall.trace) = {}
              /\ lastCall.outcome = "throw"
              /\ lastCall.error = lastCall.tokError
        /\ \A i \in FetchesOf(lastCall.trace) :
              lastCall.trace[i].outcome = "notok" =>
                 /\ lastCall.outcome = "throw"
                 /\ lastCall.error = "ShiprocketError"

\* C9's case: an endpoint request was sent with a token and answered not OK.
C9_Witness ==
    /\ AfterApiRequest
    /\ \E i \in FetchesOf(lastCall.trace) :
          /\ lastCall.trace[i].outcome = "notok"
          /\ TruthyStr(lastCall.trace[i].arg)
    /\ lastCall.outcome = "throw"

\* The last getToken call failed because a credential is not configured or
\* because the login response was not OK.
CredentialsMissing == ~(envEmail /\ envPassword)
GetTokenFailed ==
    /\ AfterGetToken
    /\ lastCall.outcome = "throw"
    /\ (CredentialsMissing \/ lastCall.login.kind = "notok")

\* getToken would return the cached token now.
CacheFreshNow ==
    TruthyStr(cachedToken) /\ now < tokenExpiry - 5 * 60 * 1000

\* C14: when getToken fails because SHIPROCKET_EMAIL or SHIPROCKET_PASSWORD
\* is not configured (then no login request is sent) or because the login
\* response is not OK, it throws a ShiprocketError and leaves cachedToken and
\* tokenExpiry unchanged; the cache is then not fresh, so the next getToken
\* call takes the login path again: it sends a login request, or, with a
\* credential missing, throws again without one.
C14_FailureKeepsCache ==
    /\ [](GetTokenFailed =>
            /\ lastCall.error = "ShiprocketError"
            /\ cachedToken = lastCall.preToken
            /\ tokenExpiry = lastCall.preExpiry
            /\ CredentialsMissing => lastCall.logins = 0
            /\ ~CacheFreshNow)
    /\ [][(GetTokenFailed /\ lastCall'.fn = "getToken") =>
            \/ lastCall'.logins = 1
            \/ /\ CredentialsMissing
               /\ lastCall'.logins = 0
               /\ lastCall'.outcome = "throw"]_vars

\* C14's case: a login was answered not OK while a token that is no longer
\* fresh was cached.
C14_Witness ==
    /\ GetTokenFailed
    /\ lastCall.login.kind = "notok"
    /\ TruthyStr(lastCall.preToken)
    /\ cachedToken = lastCall.preToken

----------------------------------------------------------------------------
(* Claims about mapShiprocketStatusToOrderStatus, checked under SpecStatus *)

\* C10: the function is total over status codes: 'delivered' for 7,
\* 'cancelled' for 8 and 16, 'shipped' for 6, 17, 18 and 42, 'returned' for
\* 9, 10 and 14, 'processing' for every other code, and nothing else.
C10_StatusTable ==
    statusResult # None =>
        /\ Val(statusResult) \in
              {"delivered", "cancelled", "shipped", "returned", "processing"}
        /\ Val(statusResult) = "delivered" <=> statusCode = 7
        /\ Val(statusResult) = "cancelled" <=> statusCode \in {8, 16}
        /\ Val(statusResult) = "shipped" <=> statusCode \in {6, 17, 18, 42}
        /\ Val(statusResult) = "returned" <=> statusCode \in {9, 10, 14}

\* C10's case: a return code was mapped.
C10_Witness ==
    /\ statusCode = 14
    /\ statusResult = Some("returned")

----------------------------------------------------------------------------
(* Claims about the checkout webhook, checked under SpecCheckout *)

UniqueOrderIds ==
    \A i, j \in 1..Len(shiprocket_orders) :
        i # j => shiprocket_orders[i].shiprocket_order_id
                    # shiprocket_orders[j].shiprocket_order_id

ExceptUpdatedAt(table) ==
    [i \in 1..Len(table) |-> [table[i] EXCEPT !.updated_at = None]]

\* C2: handling order-created / checkout-completed webhooks is an idempotent
\* upsert keyed by shiprocket_order_id: the table never holds two rows with
\* the same shiprocket_order_id, and a step that handles the payload of the
\* request answered just before it a second time leaves every field of every
\* row except updated_at unchanged.
C2_IdempotentUpsert ==
    /\ []UniqueOrderIds
    /\ [][(whResp'.handler = "handleOrderCreated" /\ whResp'.repeat)
            => ExceptUpdatedAt(shiprocket_orders')
                  = ExceptUpdatedAt(shiprocket_orders)]_vars

\* C2's case: an order-created payload was delivered and stored twice in a
\* row, the second time over a row that other webhooks had not touched.
C2_Witness ==
    /\ whResp.status = 200
    /\ whResp.handler = "handleOrderCreated"
    /\ whResp.repeat
    /\ whResp.writes = 1
    /\ \E i \in 1..Len(shiprocket_orders) :
          /\ shiprocket_orders[i].raw_webhook_data
                = Some(whResp.request.payload)
          /\ Val(shiprocket_orders[i].updated_at)
                > Val(shiprocket_orders[i].created_at)

\* C8 as stated: with SHIPROCKET_CHECKOUT_SECRET configured, a request whose
\* x-shiprocket-signature is not the base64 HMAC-SHA256 of the raw body under
\* the secret is answered 401 and causes no write to shiprocket_orders.
C8_SignatureRequired ==
    (/\ whResp.status # 0
     /\ TruthyStr(envSecret)
     /\ whResp.signature # Some(Hmac(Val(envSecret), whResp.request)))
        => (whResp.status = 401 /\ whResp.writes = 0)

\* The last request passed the signature check.
PassedSignatureCheck == whResp.status # 0 /\ whResp.status # 401

\* The selected handler issued its upsert or update and it reported an error.
StatementFailed == whResp.writes = 1 /\ whResp.failed

\* The answers of the catch and of the normal return.
Answered500 ==
    whResp.status = 500 /\ whResp.body = "Webhook processing failed"
Answered200 == whResp.status = 200 /\ whResp.body = "success"

\* C16 as stated: the checkout webhook answers 500 with a JSON error body
\* exactly when the body is not parseable JSON or the upsert or update issued
\* by the selected handler reports an error; in every other case that passes
\* the signature check it answers 200 {success: true}.
C16_AsStated ==
    PassedSignatureCheck =>
        /\ Answered500 <=> (~whResp.request.json \/ StatementFailed)
        /\ ~Answered500 => Answered200

\* C16 amended: as stated, with one more way for processing to fail: the
\* body is the JSON text null, on which reading payload.event throws.  A
\* statement that the database does not carry out is an error of the
\* statement.
C16_Answers500 ==
    PassedSignatureCheck =>
        /\ Answered500 <=> \/ ~whResp.request.json
                           \/ whResp.request = JsonNull
                           \/ StatementFailed
        /\ ~Answered500 => Answered200
        /\ (whResp.writes = 1 /\ ~whResp.dbOk) => Answered500
        /\ whResp.handler \in {"handleOrderCreated", "handlePaymentSuccess"}
              => whResp.writes = 1

\* C16's case: the update of handlePaymentSuccess reported an error.
C16_Witness ==
    /\ PassedSignatureCheck
    /\ whResp.handler = "handlePaymentSuccess"
    /\ StatementFailed
    /\ ~whResp.dbOk
    /\ Answered500

----------------------------------------------------------------------------
(* Claims about the tracking webhook, checked under SpecTracking *)

\* C3: the tracking webhook answers every request with HTTP 200, also when
\* the payload is not valid JSON, when no order matches, and when the order
\* lookup or update fails or throws.
C3_AlwaysAnswers200 ==
    trkResp # NoResponse => trkResp.status = 200

\* C3's case: the update of the order threw and the answer was still 200.
C3_Witness ==
    /\ trkResp # NoResponse
    /\ trkResp.threw
    /\ trkResp.stmts = 2
    /\ trkResp.found # None
    /\ trkResp.status = 200

StatusOf(table, i) == Val(table[i].status)

\* C4 as stated: the status of an order only moves forward under tracking
\* webhooks: once 'delivered' no later webhook sets it to 'shipped' or
\* 'processing', and once 'shipped' no later webhook sets it to 'processing'.
C4_LinearProgression ==
    [][\A i \in 1..Len(orders) :
          /\ StatusOf(orders, i) = "delivered"
                => StatusOf(orders', i) \notin {"shipped", "processing"}
          /\ StatusOf(orders, i) = "shipped"
                => StatusOf(orders', i) # "processing"]_vars

----------------------------------------------------------------------------
(* Claims about the admin-only handlers, checked under SpecAdmin *)

AfterCreateShipment ==
    adminResp # NoResponse /\ adminResp.handler = "create-shipment"

Positions(trace, op) == {i \in 1..Len(trace) : trace[i].op = op}
CarrierOps == {"carrier.createOrder", "carrier.assignAWB",
               "carrier.schedulePickup", "carrier.generateLabel"}

\* Every call of op in the trace comes after a call of before that succeeded.
OnlyAfterSuccess(trace, op, before) ==
    \A i \in Positions(trace, op) :
        \E j \in Positions(trace, before) : j < i /\ trace[j].ok

\* Every call of first in the trace comes before every call of second.
Precedes(trace, first, second) ==
    \A i \in Positions(trace, first), j \in Positions(trace, second) : i < j

\* C5: in create-shipment the carrier calls happen in the fixed order
\* createOrder, assignAWB, schedulePickup, generateLabel; assignAWB is called
\* only after createOrder succeeded in the same request, and schedulePickup
\* and generateLabel only after assignAWB succeeded in the same request.
C5_CarrierCallOrder ==
    AfterCreateShipment =>
        LET t == adminResp.trace IN
        /\ \A op \in CarrierOps : Cardinality(Positions(t, op)) <= 1
        /\ Precedes(t, "carrier.createOrder", "carrier.assignAWB")
        /\ Precedes(t, "carrier.assignAWB", "carrier.schedulePickup")
        /\ Precedes(t, "carrier.schedulePickup", "carrier.generateLabel")
        /\ OnlyAfterSuccess(t, "carrier.assignAWB", "carrier.createOrder")
        /\ OnlyAfterSuccess(t, "carrier.schedulePickup", "carrier.assignAWB")
        /\ OnlyAfterSuccess(t, "carrier.generateLabel", "carrier.assignAWB")

\* C5's case: all four carrier calls were made, and schedulePickup failed
\* without stopping generateLabel.
C5_Witness ==
    /\ AfterCreateShipment
    /\ adminResp.status = 200
    /\ \A op \in CarrierOps : Positions(adminResp.trace, op) # {}
    /\ \E i \in Positions(adminResp.trace, "carrier.schedulePickup") :
          ~adminResp.trace[i].ok

\* C6 as stated: a create-shipment request for an order whose
\* shiprocket_order_id is already set returns 400 without calling a carrier
\* endpoint and without modifying the order; so, for requests handled one
\* after another, createOrder succeeds at most once per order.
C6_CreateOrderOnce ==
    /\ (AfterCreateShipment /\ adminResp.auth = "admin"
        /\ adminResp.wasShipped
        /\ Positions(adminResp.trace, "db.select orders") # {}
        /\ \A i \in Positions(adminResp.trace, "db.select orders") :
              adminResp.trace[i].ok)
          => /\ adminResp.status = 400
             /\ \A op \in CarrierOps : Positions(adminResp.trace, op) = {}
             /\ ~adminResp.changed
    /\ \A o \in DOMAIN carrierOrders : carrierOrders[o] <= 1

\* C7: every admin-only handler calls requireAdmin before any database,
\* storage or carrier access; when requireAdmin rejects with 'Forbidden:
\* Admin access required' the handler answers 403 and has performed no read,
\* write or carrier call.
C7_RequireAdminFirst ==
    adminResp # NoResponse =>
        /\ Positions(adminResp.trace, "requireAdmin") = {1}
        /\ adminResp.auth = "forbidden" =>
              /\ adminResp.status = 403
              /\ Len(adminResp.trace) = 1
              /\ ~adminResp.changed

\* C7's case: a request that is not an admin's asked for the shipment of an
\* order that has none yet, and was refused.
C7_Witness ==
    /\ AfterCreateShipment
    /\ adminResp.auth = "forbidden"
    /\ adminResp.status = 403
    /\ \E i \in 1..Len(orders) : orders[i].shiprocket_order_id = None

\* createOrder was called by the last create-shipment request and failed.
CreateOrderFailed ==
    /\ AfterCreateShipment
    /\ \E i \in Positions(adminResp.trace, "carrier.createOrder") :
          ~adminResp.trace[i].ok

\* The order the last create-shipment request named.
NamedOrder ==
    orders[CHOOSE i \in 1..Len(orders) :
              Some(orders[i].id) = adminResp.order_id]

----------------------------------------------------------------------------
(* Claims about POST /api/orders, checked under SpecOrders *)

AfterPlaceOrder == orderResp # NoResponse

\* The request was an object, and what it asks for cannot be ordered.
OrderInvalid ==
    /\ AfterPlaceOrder
    /\ orderResp.json = "object"
    /\ \/ orderResp.noItems
       \/ orderResp.noShipping
       \/ orderResp.productMissing
       \/ orderResp.stockExceeded

\* The handler stopped because a product lookup was rejected.
LookupRejected ==
    /\ orderResp.status = 500
    /\ LET t == orderResp.trace IN
       t[Len(t)].op = "db.select products" /\ ~t[Len(t)].ok

ShippingCostStrictlyAbove(subtotal) ==
    IF subtotal > FreeShippingFrom THEN 0 ELSE ShippingFee

\* The last request created an order (the last row of orders).
OrderCreated ==
    /\ AfterPlaceOrder
    /\ orderResp.wrote
    /\ Len(orderResp.trace) > 0
    /\ \E i \in 1..Len(orderResp.trace) :
          orderResp.trace[i].op = "db.insert orders" /\ orderResp.trace[i].ok

\* C12 as stated: for every order created by POST /api/orders, shipping_cost
\* is 0 exactly when the subtotal is above 999 and 99 otherwise, total =
\* subtotal + shipping_cost, and subtotal is the sum over the items of
\* (discount_price if set, else price) times quantity.
C12_ShippingRule ==
    /\ \A i \in 1..Len(orders) :
          /\ orders[i].shipping_cost
                = ShippingCostStrictlyAbove(orders[i].subtotal)
          /\ orders[i].total = orders[i].subtotal + orders[i].shipping_cost
    /\ OrderCreated => orders[Len(orders)].subtotal = orderResp.expected

----------------------------------------------------------------------------
(* Claims about the store operations, checked under SpecStore *)

\* C13: the optimistic store operations revert on failure: when the server
\* request of addToWishlist, removeFromWishlist, removeFromCart,
\* updateCartQuantity or clearCart, run with no other store operation in
\* flight, fails (non-OK response or network error), the operation returns
\* false and wishlist, wishlistItems and cart equal their values from before
\* the call.
C13_RevertOnFailure ==
    (storeResp # NoResponse /\ storeResp.failed) =>
        /\ ~storeResp.returned
        /\ wishlist = storeResp.before.wishlist
        /\ wishlistItems = storeResp.before.wishlistItems
        /\ cart = storeResp.before.cart

\* C13's case: after earlier operations had changed the cart, the request
\* of updateCartQuantity failed on a cart that holds the item.
C13_Witness ==
    /\ storeResp # NoResponse
    /\ storeResp.op = "updateCartQuantity"
    /\ storeResp.failed
    /\ storeCalls > 1
    /\ Len(cart) > 0
    /\ ~storeResp.returned

====
